---------------------------- MODULE Spec2Model ----------------------------
(***************************************************************************)
(* A model of fitsnap3/linearfit.py: assembly of the energy / force /      *)
(* virial linear subsystems, their composition, the weighted solve, the    *)
(* error metrics and the per-group error table.                            *)
(*                                                                         *)
(* numpy arrays are sequences.  A float is a record                        *)
(*     [k |-> "fin" | "nan" | "pinf" | "ninf", n |-> Int, d |-> Int]       *)
(* where a finite value is the reduced fraction n/d with d > 0.  The       *)
(* arithmetic is exact on finite values and follows IEEE-754 on division   *)
(* by zero, infinities and NaN (numpy warns and carries on).               *)
(***************************************************************************)
EXTENDS Integers, Sequences, FiniteSets, TLC

VARIABLES
    configs,         \* the caller's dataset: field name -> sequence over configurations
    bispec_options,  \* the caller's options dictionary
    args,            \* the arguments of the latest call
    ret,             \* what the latest call returned or raised
    entry,           \* the caller's dataset as it was when the latest call was entered
    stdout,          \* lines printed by the latest call
    solver_calls     \* the (Aw, bw) pairs handed to the estimator by the latest call

vars == <<configs, bispec_options, args, ret, entry, stdout, solver_calls>>

---------------------------------------------------------------------------
(* Floats *)

NaN == [k |-> "nan", n |-> 0, d |-> 1]

PInf == [k |-> "pinf", n |-> 0, d |-> 1]

NInf == [k |-> "ninf", n |-> 0, d |-> 1]

AbsInt(i) == IF i < 0 THEN -i ELSE i

RECURSIVE Gcd(_, _)
Gcd(a, b) == IF b = 0 THEN a ELSE Gcd(b, a % b)

\* the float n/d, d # 0, in reduced form
Frac(n, d) ==
    IF d = 1 THEN [k |-> "fin", n |-> n, d |-> 1]
    ELSE LET g == Gcd(AbsInt(n), AbsInt(d))
             s == IF d < 0 THEN -1 ELSE 1
         IN  [k |-> "fin", n |-> s * (n \div g), d |-> s * (d \div g)]

F(i) == [k |-> "fin", n |-> i, d |-> 1]

IsFin(a) == a.k = "fin"

np_isnan(a) == a.k = "nan"

np_isinf(a) == a.k \in {"pinf", "ninf"}

\* -1, 0, 1 for a value that is not NaN
Sign(a) ==
    CASE a.k = "pinf" -> 1
      [] a.k = "ninf" -> -1
      [] OTHER -> IF a.n > 0 THEN 1 ELSE IF a.n < 0 THEN -1 ELSE 0

InfOfSign(s) == IF s > 0 THEN PInf ELSE NInf

Neg(a) ==
    CASE a.k = "fin" -> [k |-> "fin", n |-> -a.n, d |-> a.d]
      [] a.k = "pinf" -> NInf
      [] a.k = "ninf" -> PInf
      [] OTHER -> NaN

Add(a, b) ==
    CASE IsFin(a) /\ IsFin(b) ->
            IF a.d = b.d THEN Frac(a.n + b.n, a.d)
            ELSE LET g == Gcd(a.d, b.d)
                 IN  Frac(a.n * (b.d \div g) + b.n * (a.d \div g), (a.d \div g) * b.d)
      [] a.k = "nan" \/ b.k = "nan" -> NaN
      [] IsFin(a) -> b
      [] IsFin(b) -> a
      [] OTHER -> IF a.k = b.k THEN a ELSE NaN

Sub(a, b) == Add(a, Neg(b))

Mul(a, b) ==
    CASE IsFin(a) /\ IsFin(b) ->
            IF a.d = 1 /\ b.d = 1 THEN F(a.n * b.n)
            ELSE LET g == Gcd(AbsInt(a.n), b.d)
                     h == Gcd(AbsInt(b.n), a.d)
                 IN  Frac((a.n \div g) * (b.n \div h), (a.d \div h) * (b.d \div g))
      [] a.k = "nan" \/ b.k = "nan" -> NaN
      [] OTHER -> IF Sign(a) * Sign(b) = 0 THEN NaN ELSE InfOfSign(Sign(a) * Sign(b))

\* true division of floats: x/0 is +-inf, 0/0 is nan
Div(a, b) ==
    CASE IsFin(a) /\ IsFin(b) ->
            IF b.n = 0 THEN (IF a.n = 0 THEN NaN ELSE InfOfSign(Sign(a)))
            ELSE Frac(a.n * b.d, a.d * b.n)
      [] a.k = "nan" \/ b.k = "nan" -> NaN
      [] IsFin(a) -> F(0)
      [] IsFin(b) -> InfOfSign(Sign(a) * (IF Sign(b) < 0 THEN -1 ELSE 1))
      [] OTHER -> NaN

np_abs(a) ==
    CASE a.k = "fin" -> [k |-> "fin", n |-> AbsInt(a.n), d |-> a.d]
      [] a.k = "nan" -> NaN
      [] OTHER -> PInf

np_square(a) == Mul(a, a)

\* a > 0 as Python compares floats (False for NaN)
GtZero(a) == a.k = "pinf" \/ (a.k = "fin" /\ a.n > 0)

\* a != 0 (True for NaN and the infinities)
NonZero(a) == ~(a.k = "fin" /\ a.n = 0)

\* the sum of the elements lo..hi: np.sum adds the halves of an array
RECURSIVE np_sum_range(_, _, _)
np_sum_range(v, lo, hi) ==
    IF lo > hi THEN F(0)
    ELSE IF lo = hi THEN v[lo]
    ELSE Add(np_sum_range(v, lo, (lo + hi) \div 2),
             np_sum_range(v, ((lo + hi) \div 2) + 1, hi))

np_sum(v) == np_sum_range(v, 1, Len(v))

\* an array with its elements computed (TLC evaluates a function expression
\* element by element at each use until it is made a tuple)
Arr(f) == f \o <<>>

\* the object an assignment binds to a name: the expression is computed once,
\* as the one element of a singleton set
Bound(S) == CHOOSE v \in S : TRUE

Map1(Op(_), v) == Arr([i \in 1..Len(v) |-> Op(v[i])])

Map2(Op(_, _), u, v) == Arr([i \in 1..Len(u) |-> Op(u[i], v[i])])

\* array (op) scalar
MapS(Op(_, _), v, s) == Arr([i \in 1..Len(v) |-> Op(v[i], s)])

\* A_flat @ x_flat for one row
Dot(row, x) == np_sum(Arr([j \in 1..Len(row) |-> Mul(row[j], x[j])]))

MatVec(A, x) == Arr([i \in 1..Len(A) |-> Dot(A[i], x)])

np_count_nonzero(w) == Cardinality({i \in 1..Len(w) : NonZero(w[i])})

RECURSIVE np_concatenate(_)
np_concatenate(seqs) ==
    IF seqs = <<>> THEN <<>>
    ELSE np_concatenate(SubSeq(seqs, 1, Len(seqs) - 1)) \o seqs[Len(seqs)]

\* np.repeat(v, k): every element k times in a row
np_repeat(v, k) == Arr([i \in 1..(Len(v) * k) |-> v[((i - 1) \div k) + 1]])

---------------------------------------------------------------------------
(* get_error_metrics *)

\* an optional weight vector: w=None, or an array
None == [some |-> FALSE, v |-> <<>>]

Some(v) == [some |-> TRUE, v |-> v]

\* A.reshape(A.shape[0], -1): the type axis and the coefficient axis in one
Flatten(A) == Arr([i \in 1..Len(A) |-> np_concatenate(A[i])])

\* the divisor taken as the row count whether or not weights are given
nconfig_rows(w, pred) == Len(pred)

\* the divisor kept away from zero
nconfig_floor(w, pred) ==
    IF w.some /\ np_count_nonzero(w.v) > 0 THEN np_count_nonzero(w.v)
    ELSE IF w.some THEN 1 ELSE Len(pred)

\* the divisor of the statistics
nconfig_of(w, pred) == IF w.some THEN np_count_nonzero(w.v) ELSE Len(pred)

\* w*true (and w*pred) when a weight vector is given
weighted(w, v) == IF w.some THEN Map2(Mul, w.v, v) ELSE v

\* the denominator of rsq: np.sum(np.square(true - (true/nconfig).sum()))
total_ss(true, nc) ==
    LET mean == np_sum(MapS(Div, true, nc))
    IN  np_sum(Map1(np_square, MapS(Sub, true, mean)))

\* get_error_metrics with the weights left off the prediction
get_error_metrics_raw_pred(x, A, b, w, include_residual) ==
    LET pred == MatVec(Flatten(A), np_concatenate(x))
        true == weighted(w, b)
        nconfig == nconfig_of(w, pred)
        nc == F(nconfig)
        res == Map2(Sub, true, pred)
        mae == np_sum(MapS(Div, Map1(np_abs, res), nc))
        ssr == np_sum(Map1(np_square, res))
        mse == Div(ssr, nc)
        rsq == Sub(F(1), Div(ssr, total_ss(true, nc)))
    IN  [ncount |-> nconfig, mae |-> mae, mse |-> mse, ssr |-> ssr, rsq |-> rsq,
         residual |-> IF include_residual THEN res ELSE <<>>]

\* The record get_error_metrics returns.  mse is the square of the reported
\* rmse; the statistics that need a median or a standard deviation (rmae,
\* rrmse) are not carried.  residual is attached when include_residual.
get_error_metrics(x, A, b, w, include_residual) ==
    LET pred0 == MatVec(Flatten(A), np_concatenate(x))
        true == weighted(w, b)
        pred == weighted(w, pred0)
        nconfig == nconfig_of(w, pred)
        nc == F(nconfig)
        res == Map2(Sub, true, pred)
        mae == np_sum(MapS(Div, Map1(np_abs, res), nc))
        ssr == np_sum(Map1(np_square, res))
        mse == Div(ssr, nc)
        rsq == Sub(F(1), Div(ssr, total_ss(true, nc)))
    IN  [ncount |-> nconfig, mae |-> mae, mse |-> mse, ssr |-> ssr, rsq |-> rsq,
         residual |-> IF include_residual THEN res ELSE <<>>]

---------------------------------------------------------------------------
(* The dataset *)

\* bounds of the datasets explored
MaxConfigs == 2

MaxAtoms == 3

\* atom type ids, 1..n_types
TypeIds == {1, 2}

\* descriptor coefficient indices, 1..n_coeff
CoeffIds == {1}

\* _nktv2p = 1.6021765e6
nktv2p == Frac(16021765, 10)

\* The payload of configuration i with na atoms.  The values are fixed, differ
\* from row to row, and are small; vb_sum is given in units of 1/_nktv2p.
AtomTypesOf(i, na) == Arr([a \in 1..na |-> IF (a + i) % 2 = 0 THEN 1 ELSE 2])

b_sumOf(i) == Arr([t \in TypeIds |-> Arr([c \in CoeffIds |-> F(i + t)])])

db_atomOf(i, na) ==
    Arr([a \in 1..na |-> Arr([d \in 1..3 |->
        Arr([t \in TypeIds |-> Arr([c \in CoeffIds |-> F(a + d - t)])])])])

ForcesOf(i, na) == Arr([a \in 1..na |-> Arr([d \in 1..3 |-> F(i + a - d)])])

ref_ForcesOf(i, na) == Arr([a \in 1..na |-> Arr([d \in 1..3 |-> F(a - 1)])])

vb_sumOf(i) ==
    Arr([v \in 1..6 |-> Arr([t \in TypeIds |-> Arr([c \in CoeffIds |-> Div(F(v + t - i), nktv2p)])])])

StressOf(i) == Arr([r \in 1..3 |-> Arr([c \in 1..3 |-> F(3 * (r - 1) + c - i)])])

ref_StressOf(i) == Arr([v \in 1..6 |-> F(v - 2)])

\* a dataset of n configurations, column by column
Dataset(n, groups, natoms, ew, fw, vw) ==
    [Group |-> Arr(groups),
     NumAtoms |-> Arr([i \in 1..n |-> F(natoms[i])]),
     AtomTypes |-> Arr([i \in 1..n |-> AtomTypesOf(i, natoms[i])]),
     Energy |-> Arr([i \in 1..n |-> F(2 * i + 1)]),
     ref_Energy |-> Arr([i \in 1..n |-> F(i - 1)]),
     Volume |-> Arr([i \in 1..n |-> F(i)]),
     Stress |-> Arr([i \in 1..n |-> StressOf(i)]),
     ref_Stress |-> Arr([i \in 1..n |-> ref_StressOf(i)]),
     Forces |-> Arr([i \in 1..n |-> ForcesOf(i, natoms[i])]),
     ref_Forces |-> Arr([i \in 1..n |-> ref_ForcesOf(i, natoms[i])]),
     b_sum |-> Arr([i \in 1..n |-> b_sumOf(i)]),
     db_atom |-> Arr([i \in 1..n |-> db_atomOf(i, natoms[i])]),
     vb_sum |-> Arr([i \in 1..n |-> vb_sumOf(i)]),
     eweight |-> Arr([i \in 1..n |-> F(ew[i])]),
     fweight |-> Arr([i \in 1..n |-> F(fw[i])]),
     vweight |-> Arr([i \in 1..n |-> F(vw[i])])]

EmptyDataset == Dataset(0, <<>>, <<>>, <<>>, <<>>, <<>>)

---------------------------------------------------------------------------
(* OffsetEncoder and SubsystemAssembler *)

\* n_types = A.shape[1]
n_types_of(A) == Len(A[1])

\* a flag per type, set when the type occurs, in place of the count
onehot_present(n_types, types) ==
    Arr([t \in 1..n_types |-> F(IF \E a \in 1..Len(types) : types[a] = t THEN 1 ELSE 0)])

\* np.eye(n_types)[x-1,:].sum(axis=0): how many atoms of each type
onehot_count(n_types, types) ==
    Arr([t \in 1..n_types |-> F(Cardinality({a \in 1..Len(types) : types[a] = t}))])

energy_type_offset(A_energy, AtomTypes) ==
    LET n_types == n_types_of(A_energy)
        onehot_atoms == Arr([i \in 1..Len(AtomTypes) |-> onehot_count(n_types, AtomTypes[i])])
        onehot_fraction ==
            Arr([i \in 1..Len(onehot_atoms) |-> MapS(Div, onehot_atoms[i], np_sum(onehot_atoms[i]))])
    IN  Arr([i \in 1..Len(A_energy) |->
            Arr([t \in 1..n_types |-> <<onehot_fraction[i][t]>> \o A_energy[i][t]])])

zero_type_offset(A_other) ==
    Arr([i \in 1..Len(A_other) |-> Arr([t \in 1..Len(A_other[i]) |-> <<F(0)>> \o A_other[i][t]])])

\* every entry of a typed matrix by a scalar
Scale(A, Op(_, _), s) ==
    Arr([i \in 1..Len(A) |-> Arr([t \in 1..Len(A[i]) |-> MapS(Op, A[i][t], s)])])

\* A linear subsystem (A, b, w).  w_is names the dataset array that w is (the
\* same object, not a copy), or "new" for an array built by the call.
Abw(A, b, w, w_is) == [A |-> A, b |-> b, w |-> w, w_is |-> w_is]

makeAbw_b(cf, offset) ==
    LET n == Len(cf.NumAtoms)
        a == Arr([i \in 1..n |-> Scale(<<cf.b_sum[i]>>, Div, cf.NumAtoms[i])[1]])
        b == Arr([i \in 1..n |-> Div(Sub(cf.Energy[i], cf.ref_Energy[i]), cf.NumAtoms[i])])
    IN  Abw(IF offset THEN energy_type_offset(a, cf.AtomTypes) ELSE a, b, cf.eweight, "eweight")

\* one weight for every atom instead of one for every force component
full_like_per_atom(forces, fw) == Arr([j \in 1..Len(forces) |-> fw])

\* np.full_like(Forces[i], fweight[i]), flattened
full_like_flat(forces, fw) == Arr([j \in 1..Len(np_concatenate(forces)) |-> fw])

makeAbw_db(cf, offset) ==
    LET db_atom_flat == np_concatenate(cf.db_atom)
        a == np_concatenate(db_atom_flat)
        b == Map2(Sub, np_concatenate(np_concatenate(cf.Forces)),
                       np_concatenate(np_concatenate(cf.ref_Forces)))
        w == np_concatenate(Arr([i \in 1..Len(cf.Forces) |->
                 full_like_flat(cf.Forces[i], cf.fweight[i])]))
    IN  Abw(IF offset THEN zero_type_offset(a) ELSE a, b, w, "new")

\* Stress[:,[0,1,2,1,0,0],[0,1,2,2,2,1]]
VoigtRow == <<1, 2, 3, 2, 1, 1>>

VoigtCol == <<1, 2, 3, 3, 3, 2>>

flat_stress(Stress) ==
    Arr([i \in 1..Len(Stress) |-> Arr([v \in 1..6 |-> Stress[i][VoigtRow[v]][VoigtCol[v]]])])

makeAbw_vb(cf, offset) ==
    LET rows == np_concatenate(cf.vb_sum)
        vol == np_repeat(cf.Volume, 6)
        a0 == Arr([r \in 1..Len(rows) |-> Scale(<<rows[r]>>, Div, vol[r])[1]])
        a == Scale(a0, Mul, nktv2p)
        b == np_concatenate(Map2(LAMBDA s, r : Map2(Sub, s, r), flat_stress(cf.Stress), cf.ref_Stress))
        w == np_repeat(cf.vweight, 6)
    IN  Abw(IF offset THEN zero_type_offset(a) ELSE a, b, w, "new")

---------------------------------------------------------------------------
(* SystemComposer *)

\* the three flags of a selector that are set, as positions 1..3
Selected(subsystems) == {k \in 1..3 : subsystems[k]}

\* the k-th assembler of (makeAbw_b, makeAbw_db, makeAbw_vb)
Assemble(k, cf, offset) ==
    CASE k = 1 -> makeAbw_b(cf, offset)
      [] k = 2 -> makeAbw_db(cf, offset)
      [] OTHER -> makeAbw_vb(cf, offset)

\* the elements of a set of integers in increasing order
RECURSIVE SortedSeq(_)
SortedSeq(S) ==
    IF S = {} THEN <<>>
    ELSE LET m == CHOOSE a \in S : \A b \in S : a <= b
         IN  <<m>> \o SortedSeq(S \ {m})

\* map(np.concatenate, zip(*submatrices))
Combine(submatrices) ==
    Abw(np_concatenate(Arr([k \in 1..Len(submatrices) |-> submatrices[k].A])),
        np_concatenate(Arr([k \in 1..Len(submatrices) |-> submatrices[k].b])),
        np_concatenate(Arr([k \in 1..Len(submatrices) |-> submatrices[k].w])),
        "new")

\* make_Abw with the combined system put after the subsystems
make_Abw_combined_last(cf, offset, return_subsystems, subsystems) ==
    LET fns == SortedSeq(Selected(subsystems))
        submatrices == Arr([k \in 1..Len(fns) |-> Assemble(fns[k], cf, offset)])
    IN  IF Len(fns) = 1
        THEN [raised |-> FALSE, tuple |-> return_subsystems, systems |-> submatrices]
        ELSE IF Len(fns) = 0
        THEN [raised |-> TRUE, tuple |-> FALSE, systems |-> <<>>]
        ELSE IF return_subsystems
        THEN [raised |-> FALSE, tuple |-> TRUE, systems |-> submatrices \o <<Combine(submatrices)>>]
        ELSE [raised |-> FALSE, tuple |-> FALSE, systems |-> <<Combine(submatrices)>>]

\* make_Abw.  raised: the call raised (no flag set: unpacking an empty map);
\* tuple: the value is a tuple of systems, otherwise one (A, b, w).
make_Abw(cf, offset, return_subsystems, subsystems) ==
    LET fns == SortedSeq(Selected(subsystems))
        submatrices == Arr([k \in 1..Len(fns) |-> Assemble(fns[k], cf, offset)])
    IN  IF Len(fns) = 1
        THEN [raised |-> FALSE, tuple |-> return_subsystems, systems |-> submatrices]
        ELSE IF Len(fns) = 0
        THEN [raised |-> TRUE, tuple |-> FALSE, systems |-> <<>>]
        ELSE IF return_subsystems
        THEN [raised |-> FALSE, tuple |-> TRUE, systems |-> <<Combine(submatrices)>> \o submatrices]
        ELSE [raised |-> FALSE, tuple |-> FALSE, systems |-> <<Combine(submatrices)>>]

sysnames == <<"Combined", "Energy", "Forces", "Stress">>

\* the names with Combined always among them
get_subsys_names_combined(subsystems) ==
    LET needed == <<TRUE>> \o subsystems
        wanted == SortedSeq({j \in 1..4 : needed[j]})
    IN  Arr([k \in 1..Len(wanted) |-> sysnames[wanted[k]]])

get_subsys_names(subsystems) ==
    LET needs_combined == Cardinality(Selected(subsystems)) > 1
        needed == <<needs_combined>> \o subsystems
        wanted == SortedSeq({j \in 1..4 : needed[j]})
    IN  Arr([k \in 1..Len(wanted) |-> sysnames[wanted[k]]])

---------------------------------------------------------------------------
(* GroupAggregator *)

\* v[np.asarray(ind)]: a new array
get_ind(v, ind) == Arr([k \in 1..Len(ind) |-> v[ind[k]]])

get_subgroup(cfs, group_name) ==
    LET ind == SortedSeq({i \in 1..Len(cfs.Group) : cfs.Group[i] = group_name})
    IN  [Group |-> get_ind(cfs.Group, ind),
         NumAtoms |-> get_ind(cfs.NumAtoms, ind),
         AtomTypes |-> get_ind(cfs.AtomTypes, ind),
         Energy |-> get_ind(cfs.Energy, ind),
         ref_Energy |-> get_ind(cfs.ref_Energy, ind),
         Volume |-> get_ind(cfs.Volume, ind),
         Stress |-> get_ind(cfs.Stress, ind),
         ref_Stress |-> get_ind(cfs.ref_Stress, ind),
         Forces |-> get_ind(cfs.Forces, ind),
         ref_Forces |-> get_ind(cfs.ref_Forces, ind),
         b_sum |-> get_ind(cfs.b_sum, ind),
         db_atom |-> get_ind(cfs.db_atom, ind),
         vb_sum |-> get_ind(cfs.vb_sum, ind),
         eweight |-> get_ind(cfs.eweight, ind),
         fweight |-> get_ind(cfs.fweight, ind),
         vweight |-> get_ind(cfs.vweight, ind)]

\* the label group_errors gives the aggregate of all groups
AllLabel == "*ALL"

\* the label group_errors looks for before it inserts the aggregate
CheckedLabel == "*All"

\* the training mask with >= where the code has >
train_mask_ge(w) ==
    Arr([i \in 1..Len(w) |-> IF GtZero(w[i]) \/ ~NonZero(w[i]) THEN F(1) ELSE F(0)])

\* w[i] = 1.0 if w[i] > 0.0 else 0.0, for every i
train_mask(w) == Arr([i \in 1..Len(w) |-> IF GtZero(w[i]) THEN F(1) ELSE F(0)])

\* abs(1-w)
test_mask(w) == Arr([i \in 1..Len(w) |-> np_abs(Sub(F(1), w[i]))])

\* an error record with its labels; w_used (not a column of the table) is the
\* weight vector the metrics were computed with
Record(x, subsys, w, gname, gtype, wtype) ==
    [Group |-> gname, Subsystem |-> gtype, Weighting |-> wtype, w_used |-> w,
     metrics |-> get_error_metrics(x, subsys.A, subsys.b, w, FALSE)]

\* the weight array of a subsystem as it is now: the dataset's own array when
\* the subsystem holds that array
w_now(subsys, cf) == IF subsys.w_is = "new" THEN subsys.w ELSE cf[subsys.w_is]

\* the records of one (group, subsystem) cell of the loop body
CellRecords(x, subsys, w, gname, gtype, testerrs) ==
    <<Record(x, subsys, Some(w), gname, gtype, "Weighted")>>
    \o (IF testerrs
        THEN <<Record(x, subsys, Some(train_mask(w)), gname, gtype, "CVTrain_Unweight"),
               Record(x, subsys, Some(test_mask(train_mask(w))), gname, gtype, "CVTest_Unweight")>>
        ELSE <<>>)
    \o <<Record(x, subsys, None, gname, gtype, "Unweighted")>>

\* the dataset of the group after the cell: the in-place loop over w writes
\* into the dataset's array when w is that array
CellEffect(subsys, cf, testerrs) ==
    IF testerrs /\ subsys.w_is # "new"
    THEN [cf EXCEPT ![subsys.w_is] = train_mask(cf[subsys.w_is])]
    ELSE cf

\* the inner loop, over zip(sysnames, systems), from position k on
RECURSIVE SubsysLoop(_, _, _, _, _, _, _)
SubsysLoop(x, names, systems, k, cf, gname, testerrs) ==
    IF k > Len(names) \/ k > Len(systems) THEN [records |-> <<>>, cf |-> cf]
    ELSE Bound({Bound({[records |-> recs \o rest.records, cf |-> rest.cf] :
                    rest \in {SubsysLoop(x, names, systems, k + 1, after, gname, testerrs)}}) :
                recs \in {CellRecords(x, systems[k], w_now(systems[k], cf), gname, names[k],
                                      testerrs)},
                after \in {CellEffect(systems[k], cf, testerrs)}})

\* Group labels and the other index labels in the order strings sort
GroupNames == <<"*ALL", "*All", "A", "B">>

WeightingNames == <<"CVTest_Unweight", "CVTrain_Unweight", "Unweighted", "Weighted">>

Rank(names, s) == CHOOSE k \in 1..Len(names) : names[k] = s

\* the (Group, Weighting, Subsystem) index keys there can be, in sorted order
IndexKeys ==
    Arr([p \in 1..(Len(GroupNames) * Len(WeightingNames) * Len(sysnames)) |->
            <<GroupNames[((p - 1) \div (Len(WeightingNames) * Len(sysnames))) + 1],
              WeightingNames[(((p - 1) \div Len(sysnames)) % Len(WeightingNames)) + 1],
              sysnames[((p - 1) % Len(sysnames)) + 1]>>])

KeyOf(r) == <<r.Group, r.Weighting, r.Subsystem>>

\* the records left in the order the loop appended them
append_order(recs) == recs

\* set_index([...]).sort_index(): the records in the order of their index keys
sort_index(recs) ==
    LET Present(key) == \E i \in 1..Len(recs) : KeyOf(recs[i]) = key
    IN  Bound({Arr([p \in 1..Len(keys) |->
                       recs[CHOOSE i \in 1..Len(recs) : KeyOf(recs[i]) = keys[p]]]) :
               keys \in {SelectSeq(IndexKeys, Present)}})

\* the keys of subconfigs, in the order of GroupNames (the table is sorted at
\* the end, and the groups' datasets are all cut before the loop starts)
GroupKeys(keyset) ==
    LET ranks == SortedSeq({Rank(GroupNames, g) : g \in keyset})
    IN  Arr([k \in 1..Len(ranks) |-> GroupNames[ranks[k]]])

\* The dictionary subconfigs: for each key, whether the value is the caller's
\* dataset itself (is_configs) or a dataset cut out of it by get_subgroup.
subconfigs_of(cfs) ==
    LET group_set == {cfs.Group[i] : i \in 1..Len(cfs.Group)}
        cut == [g \in group_set |-> [is_configs |-> FALSE, cf |-> get_subgroup(cfs, g)]]
        whole == [is_configs |-> TRUE, cf |-> cfs]
    IN  IF Cardinality(group_set) > 1
        THEN IF CheckedLabel \in group_set
             THEN [raised |-> TRUE, d |-> cut]
             ELSE [raised |-> FALSE,
                   d |-> [g \in group_set \cup {AllLabel} |-> IF g = AllLabel THEN whole ELSE cut[g]]]
        ELSE [raised |-> FALSE, d |-> cut]

\* the outer loop, over subconfigs.items(), from key k on; cfs is the caller's
\* dataset as the loop has left it so far
RECURSIVE GroupLoop(_, _, _, _, _, _, _)
GroupLoop(x, keys, k, d, cfs, subsystems, testerrs) ==
    IF k > Len(keys) THEN [records |-> <<>>, configs |-> cfs]
    ELSE LET gname == keys[k]
             cf == IF d[gname].is_configs THEN cfs ELSE d[gname].cf
         IN  Bound({Bound({Bound({[records |-> body.records \o rest.records,
                                   configs |-> rest.configs] :
                    rest \in {GroupLoop(x, keys, k + 1, d,
                                        IF d[gname].is_configs THEN body.cf ELSE cfs,
                                        subsystems, testerrs)}}) :
                body \in {SubsysLoop(x, get_subsys_names(subsystems), systems, 1, cf, gname,
                                     testerrs)}}) :
                systems \in {make_Abw(cf, TRUE, TRUE, subsystems).systems}})

\* group_errors: what it returns or raises, and the caller's dataset afterwards
group_errors(x, cfs, options, subsystems) ==
    Bound({IF sub.raised
           THEN [raised |-> "ValueError", table |-> <<>>, configs |-> cfs]
           ELSE IF Selected(subsystems) = {}
           THEN [raised |-> "ValueError", table |-> <<>>, configs |-> cfs]
           ELSE Bound({[raised |-> "no", table |-> sort_index(loop.records),
                        configs |-> loop.configs] :
                    loop \in {GroupLoop(x, GroupKeys(DOMAIN sub.d), 1, sub.d, cfs, subsystems,
                                        options.compute_testerrs)}}) :
        sub \in {subconfigs_of(cfs)}})

---------------------------------------------------------------------------
(* get_residuals *)

\* np.cumsum(num_elem) at position k
RECURSIVE cumsum(_, _)
cumsum(num_elem, k) == IF k = 0 THEN 0 ELSE cumsum(num_elem, k - 1) + num_elem[k]

\* rows of `width` entries cut from a flat array
reshape_rows(flat, width) ==
    Arr([r \in 1..(Len(flat) \div width) |-> SubSeq(flat, width * (r - 1) + 1, width * r)])

\* unflatten.  ndim is the number of axes of one item of shape_like: 0 and 1
\* for the arrays of energies and of Voigt rows (reshape to the array's shape),
\* 2 for the list of per-configuration force arrays (split, then reshape each
\* piece).  A reshape to a shape of another size raises.
unflatten(flat_array, shape_like, ndim) ==
    LET num_elem == Arr([i \in 1..Len(shape_like) |->
                        CASE ndim = 0 -> 1
                          [] ndim = 1 -> Len(shape_like[i])
                          [] OTHER -> 3 * Len(shape_like[i])])
        piece(i) == SubSeq(flat_array, cumsum(num_elem, i - 1) + 1,
                           IF i = Len(shape_like) THEN Len(flat_array)
                           ELSE cumsum(num_elem, i))
    IN  IF (ndim < 2 \/ Len(shape_like) > 0) /\ cumsum(num_elem, Len(shape_like)) # Len(flat_array)
        THEN [raised |-> TRUE, value |-> <<>>]
        ELSE [raised |-> FALSE,
              value |-> CASE ndim = 0 -> flat_array
                          [] ndim = 1 -> Arr([i \in 1..Len(shape_like) |-> piece(i)])
                          [] OTHER -> Arr([i \in 1..Len(shape_like) |-> reshape_rows(piece(i), 3)])]

\* "ref_" + nm, and the axes of one item of that field
ref_field(nm) ==
    CASE nm = "Energy" -> "ref_Energy"
      [] nm = "Forces" -> "ref_Forces"
      [] OTHER -> "ref_Stress"

ref_ndim(nm) ==
    CASE nm = "Energy" -> 0
      [] nm = "Forces" -> 2
      [] OTHER -> 1

\* "residual_" + nm
residual_key(nm) ==
    CASE nm = "Energy" -> "residual_Energy"
      [] nm = "Forces" -> "residual_Forces"
      [] nm = "Stress" -> "residual_Stress"
      [] OTHER -> "residual_Combined"

\* get_residuals: outdict as the sequence of its (key, value) items, or the
\* exception of make_Abw or of a reshape
get_residuals(x, cfs, subsystems) ==
    Bound({IF made.raised THEN [raised |-> TRUE, outdict |-> <<>>]
           ELSE LET all_names == get_subsys_names(subsystems)
                    drop == IF Len(made.systems) > 1 THEN 1 ELSE 0
                    names == SubSeq(all_names, 1 + drop, Len(all_names))
                    submatrices == SubSeq(made.systems, 1 + drop, Len(made.systems))
                    n == IF Len(names) < Len(submatrices) THEN Len(names) ELSE Len(submatrices)
                IN  Bound({[raised |-> \E k \in 1..n : items[k][2].raised,
                            outdict |-> Arr([k \in 1..n |-> <<items[k][1], items[k][2].value>>])] :
                        items \in {Arr([k \in 1..n |->
                            <<residual_key(names[k]),
                              unflatten(get_error_metrics(x, submatrices[k].A, submatrices[k].b,
                                                          Some(submatrices[k].w), TRUE).residual,
                                        cfs[ref_field(names[k])], ref_ndim(names[k]))>>])}}) :
        made \in {make_Abw(cfs, TRUE, TRUE, subsystems)}})

---------------------------------------------------------------------------
(* WeightedSolver *)

add_offset_zero_fit(x_typed) ==
    Arr([t \in 1..Len(x_typed) |-> <<F(0)>> \o x_typed[t]])

\* (np.isnan(v)).any() alone, the infinities not looked for
any_nan(v) == \E i \in 1..Len(v) : np_isnan(v[i])

\* (np.isinf(v)).any() or (np.isnan(v)).any(), for a flat array
any_inf_or_nan(v) == \E i \in 1..Len(v) : np_isinf(v[i]) \/ np_isnan(v[i])

MsgA == "Inf or NaN found in Bispectrum Matrix (A)"

MsgB == "Inf or NaN found in Training Reference Data (b)"

MsgW == "Inf or NaN found in Weighting Vector (w)"

MsgClean == "A,b,w look clean, sending to liner solver"

\* the line solve_linear_snap prints
diagnostic(A, b, w) ==
    IF any_inf_or_nan(np_concatenate(Flatten(A))) THEN MsgA
    ELSE IF any_inf_or_nan(b) THEN MsgB
    ELSE IF any_inf_or_nan(w) THEN MsgW
    ELSE MsgClean

\* x.reshape(n_types, n_coeff)
reshape2(x, n_types, n_coeff) ==
    Arr([t \in 1..n_types |-> SubSeq(x, (t - 1) * n_coeff + 1, t * n_coeff)])

\* solve_linear_snap, given what the estimator answers to (Aw, bw): the line
\* printed, the system handed to the estimator and the pair returned
solve_linear_snap(A, b, w, solver_x, solver_info, offset) ==
    LET n_rows == Len(A)
        n_types == Len(A[1])
        n_coeff == Len(A[1][1])
        A_flat == Flatten(A)
        Aw == Arr([i \in 1..n_rows |-> MapS(Mul, A_flat[i], w[i])])
        bw == Map2(Mul, w, b)
        x_typed == reshape2(solver_x, n_types, n_coeff)
    IN  [printed |-> <<diagnostic(A, b, w)>>,
         submitted |-> <<[Aw |-> Aw, bw |-> bw]>>,
         x_typed |-> IF ~offset THEN add_offset_zero_fit(x_typed) ELSE x_typed,
         solver_info |-> solver_info]

\* a keyword argument of an estimator's constructor
Kw(name, value) == [name |-> name, value |-> value]

KwFlag(name, flag) == Kw(name, [k |-> IF flag THEN "True" ELSE "False", n |-> 0, d |-> 1])

KwText(name, text) == Kw(name, [k |-> text, n |-> 0, d |-> 1])

\* set_prior_coeffs: the coefficients and the intercept a model starts from
set_prior_coeffs(options) ==
    IF options.SGDPrior
    THEN [coeffs |-> options.SGDPriorBeta, intercept |-> <<F(0)>>]
    ELSE [coeffs |-> Arr([i \in 1..(Len(options.SGDPriorBeta) + 1) |-> F(0)]),
          intercept |-> <<F(0)>>]

\* sklearn_model_to_fn: the fit function is the class and the keyword
\* arguments every model it builds is constructed with
sklearn_model_to_fn(options, modelcls, model_kwargs) ==
    [modelcls |-> modelcls, model_kwargs |-> model_kwargs]

\* fitfn: a new model, its prior coefficients set, fitted
fitfn(fn, options) ==
    [modelcls |-> fn.modelcls, model_kwargs |-> fn.model_kwargs,
     coef_ |-> set_prior_coeffs(options).coeffs,
     intercept_ |-> set_prior_coeffs(options).intercept]

SolverNames == {"SVD", "LASSO", "RIDGE", "ELASTIC", "SGD"}

solver_fndict(options) ==
    [name \in SolverNames |->
        CASE name = "SVD" ->
                sklearn_model_to_fn(options, "LinearRegression", {})
          [] name = "LASSO" ->
                sklearn_model_to_fn(options, "Lasso",
                    {Kw("alpha", options.normweight), KwText("max_iter", "1E6"),
                     KwFlag("fit_intercept", FALSE)})
          [] name = "RIDGE" ->
                sklearn_model_to_fn(options, "Ridge",
                    {Kw("alpha", options.normweight), KwText("max_iter", "1E6"),
                     KwFlag("fit_intercept", FALSE)})
          [] name = "ELASTIC" ->
                sklearn_model_to_fn(options, "ElasticNet",
                    {Kw("alpha", options.normweight), Kw("l1_ratio", options.normratio),
                     KwText("max_iter", "1E6"), KwFlag("fit_intercept", FALSE)})
          [] OTHER ->
                sklearn_model_to_fn(options, "SGDRegressor",
                    {KwText("penalty", "none"), Kw("alpha", F(0)), KwFlag("shuffle", TRUE),
                     KwText("max_iter", "1E4"), KwFlag("fit_intercept", FALSE),
                     KwText("learning_rate", "adaptive"), KwText("eta0", "1E-20"),
                     KwFlag("early_stopping", TRUE), KwFlag("warm_start", TRUE),
                     Kw("verbose", F(1)), KwText("tol", "None")})]

\* no fit function
NoFn == [modelcls |-> "", model_kwargs |-> {}]

\* get_solver_fn: solver_fndict[solver], a KeyError for a name it does not hold
get_solver_fn(options, solver) ==
    IF solver \in SolverNames
    THEN [raised |-> "no", fn |-> solver_fndict(options)[solver]]
    ELSE [raised |-> "KeyError", fn |-> NoFn]

---------------------------------------------------------------------------
(* The calls a caller makes *)

Selectors == {<<e, f, v>> : e \in BOOLEAN, f \in BOOLEAN, v \in BOOLEAN}

\* fitted coefficients, shape (n_types, n_coeff + 1)
Coefficients == {<<<<F(0), F(1)>>, <<F(1), F(-1)>>>>}

NoOptions == [compute_testerrs |-> FALSE]

NoCall == [op |-> "none"]

\* non-decreasing sequences of length n over 1..m
RECURSIVE Ascending(_, _)
Ascending(n, m) ==
    IF n = 0 THEN {<<>>}
    ELSE {s \o <<j>> : s \in Ascending(n - 1, m), j \in 1..m} \cap
         {s \in [1..n -> 1..m] : \A i \in 1..(n - 1) : s[i] <= s[i + 1]}

\* (eweight, fweight, vweight) of a configuration that is fitted, and of one
\* that is held out of the energy and force fit
FitWeights == <<2, 1, 0>>

HeldOutWeights == <<0, 0, 1>>

\* Datasets for the per-group error table: the configurations of a group
\* follow one another, the first h configurations are held out, every
\* configuration has one atom.
GroupDatasets(n_configs) ==
    UNION {
        {LET wt == [i \in 1..n |-> IF i <= h THEN HeldOutWeights ELSE FitWeights]
         IN  Dataset(n, [i \in 1..n |-> GroupNames[g[i]]], [i \in 1..n |-> 1],
                     [i \in 1..n |-> wt[i][1]], [i \in 1..n |-> wt[i][2]],
                     [i \in 1..n |-> wt[i][3]]) :
            g \in Ascending(n, Len(GroupNames)), h \in 0..n} :
        n \in 1..n_configs}

Init ==
    /\ configs \in GroupDatasets(MaxConfigs)
    /\ bispec_options \in [compute_testerrs : BOOLEAN]
    /\ args = NoCall
    /\ ret = NoCall
    /\ entry = configs
    /\ stdout = <<>>
    /\ solver_calls = <<>>

\* A call on a dataset that the previous call left as it found it leads to the
\* states a first call on that dataset leads to: only the first call, and a call
\* after one that changed the dataset, are explored.
Callable == ret.op = "none" \/ configs # entry

GroupErrors ==
    /\ Callable
    /\ \E x \in Coefficients, subsystems \in Selectors :
        \E r \in {group_errors(x, configs, bispec_options, subsystems)} :
            /\ args' = [op |-> "group_errors", x |-> x, subsystems |-> subsystems]
            /\ entry' = configs
            /\ configs' = r.configs
            /\ ret' = [op |-> "group_errors", raised |-> r.raised, table |-> r.table]
            /\ UNCHANGED <<bispec_options, stdout, solver_calls>>

Next == GroupErrors

Spec == Init /\ [][Next]_vars

---------------------------------------------------------------------------
(* Properties of group_errors *)

Returned == ret.op = "group_errors" /\ ret.raised = "no"

Groups(cfs) == {cfs.Group[i] : i \in 1..Len(cfs.Group)}

\* the positions in the returned table of the records of a cell and weighting
Rows(gname, gtype, wtype) ==
    {i \in 1..Len(ret.table) : /\ ret.table[i].Group = gname
                               /\ ret.table[i].Subsystem = gtype
                               /\ ret.table[i].Weighting = wtype}

\* C1: group_errors leaves every field of the caller's dataset as it found it
\* (as stated; the code does not keep to it)
C1_DatasetUnchanged == ret.op = "group_errors" => configs = entry

\* C2: when the dataset has more than one group and one of them carries the
\* label of the aggregate, group_errors raises the naming conflict instead of
\* returning a table (as stated; the code does not keep to it)
C2_ConflictRaises ==
    (/\ ret.op = "group_errors"
     /\ Cardinality(Groups(entry)) > 1
     /\ AllLabel \in Groups(entry)
     /\ Selected(args.subsystems) # {})
        => ret.raised = "ValueError"

\* the mask that is 1.0 on the rows of w with a weight > 0 and 0.0 elsewhere,
\* and the one that is 1.0 on the rows with weight 0
IsTrainMaskOf(m, w) ==
    /\ Len(m) = Len(w)
    /\ \A r \in 1..Len(w) : m[r] = IF w[r].k = "fin" /\ w[r].n > 0 THEN F(1) ELSE F(0)

IsTestMaskOf(m, w) ==
    /\ Len(m) = Len(w)
    /\ \A r \in 1..Len(w) : m[r] = IF w[r] = F(0) THEN F(1) ELSE F(0)

\* C3: with compute_testerrs, every weighted cell has a CVTrain_Unweight record
\* whose mask is 1.0 exactly on the rows of weight > 0 and a CVTest_Unweight
\* record whose mask is 1.0 exactly on the rows of weight 0; the two masks never
\* select the same row and add up to 1.0 on every row
C3_ComplementaryMasks ==
    (Returned /\ bispec_options.compute_testerrs) =>
        \A i \in 1..Len(ret.table) :
            ret.table[i].Weighting = "Weighted" =>
                LET w == ret.table[i].w_used.v
                    tr == Rows(ret.table[i].Group, ret.table[i].Subsystem, "CVTrain_Unweight")
                    te == Rows(ret.table[i].Group, ret.table[i].Subsystem, "CVTest_Unweight")
                IN  /\ tr # {} /\ te # {}
                    /\ \A j \in tr : IsTrainMaskOf(ret.table[j].w_used.v, w)
                    /\ \A k \in te : IsTestMaskOf(ret.table[k].w_used.v, w)
                    /\ \A j \in tr, k \in te : \A r \in 1..Len(w) :
                          /\ ~(ret.table[j].w_used.v[r] = F(1) /\ ret.table[k].w_used.v[r] = F(1))
                          /\ Add(ret.table[j].w_used.v[r], ret.table[k].w_used.v[r]) = F(1)

\* a table with a training mask that selects a row of weight 2 and leaves out a
\* row of weight 0
C3_Witness ==
    /\ Returned
    /\ bispec_options.compute_testerrs
    /\ \E i \in 1..Len(ret.table), j \in 1..Len(ret.table) :
          /\ ret.table[i].Weighting = "Weighted"
          /\ ret.table[j].Weighting = "CVTrain_Unweight"
          /\ ret.table[j].Group = ret.table[i].Group
          /\ ret.table[j].Subsystem = ret.table[i].Subsystem
          /\ \E r1, r2 \in 1..Len(ret.table[i].w_used.v) :
                /\ ret.table[i].w_used.v[r1] = F(2) /\ ret.table[j].w_used.v[r1] = F(1)
                /\ ret.table[i].w_used.v[r2] = F(0) /\ ret.table[j].w_used.v[r2] = F(0)

---------------------------------------------------------------------------
(* get_error_metrics on its own *)

\* bound of the systems handed to get_error_metrics
MaxRows == 2

\* rows of A (one type, two coefficients), targets and weights; weights are
\* not negative (eweight, fweight, vweight and the 0/1 masks)
MetricRows == {<<<<F(0), F(1)>>>>, <<<<F(1), F(0)>>>>, <<<<F(1), F(1)>>>>}

MetricTargets == {F(-1), F(2), F(3)}

MetricWeights == {F(0), F(1), F(2)}

MetricX == <<<<F(3), F(2)>>>>

MetricInputs(n_rows) ==
    UNION {{[op |-> "input", x |-> MetricX, A |-> A, b |-> b, w |-> w] :
                A \in [1..n -> MetricRows], b \in [1..n -> MetricTargets],
                w \in {None} \cup {Some(v) : v \in [1..n -> MetricWeights]}} :
           n \in 1..n_rows}

InitMetrics ==
    /\ configs = EmptyDataset
    /\ bispec_options = NoOptions
    /\ args \in MetricInputs(MaxRows)
    /\ ret = NoCall
    /\ entry = configs
    /\ stdout = <<>>
    /\ solver_calls = <<>>

GetErrorMetrics ==
    /\ args.op = "input"
    /\ ret.op = "none"
    /\ ret' = [op |-> "get_error_metrics",
               record |-> get_error_metrics(args.x, args.A, args.b, args.w, FALSE)]
    /\ UNCHANGED <<configs, bispec_options, args, entry, stdout, solver_calls>>

NextMetrics == GetErrorMetrics

SpecMetrics == InitMetrics /\ [][NextMetrics]_vars

Measured == ret.op = "get_error_metrics"

Positive(w) == {i \in 1..Len(w) : w[i].k = "fin" /\ w[i].n > 0}

AllZero(w) == \A i \in 1..Len(w) : w[i] = F(0)

\* C4: with a weight vector the reported ncount is the number of rows whose
\* weight is > 0; without one it is the number of rows
C4_CountOfPositiveWeights ==
    Measured =>
        ret.record.ncount = IF args.w.some THEN Cardinality(Positive(args.w.v))
                            ELSE Len(args.A)

\* weights given, some rows of weight 0 and some of weight > 0
C4_Witness ==
    /\ Measured
    /\ args.w.some
    /\ Positive(args.w.v) # {}
    /\ Cardinality(Positive(args.w.v)) < Len(args.A)
    /\ ret.record.ncount = Cardinality(Positive(args.w.v))

\* C5: for a weight vector of zeros only, get_error_metrics returns a record
\* with ncount = 0 whose statistics divided by the count (mae, mse, rsq) are
\* NaN, not finite numbers
C5_ZeroWeightsGiveNaN ==
    (Measured /\ args.w.some /\ AllZero(args.w.v)) =>
        /\ ret.record.ncount = 0
        /\ ret.record.mae = NaN
        /\ ret.record.mse = NaN
        /\ ret.record.rsq = NaN

\* a call with two rows, both of weight 0, has returned
C5_Witness ==
    /\ Measured
    /\ args.w.some
    /\ Len(args.w.v) = 2
    /\ AllZero(args.w.v)
    /\ ret.record.ncount = 0
    /\ ret.record.rsq = NaN

\* the prediction A.x equals b on every row
ZeroResidual == MatVec(Flatten(args.A), np_concatenate(args.x)) = args.b

\* the denominator of rsq for the arguments of the call
CallTotalSS ==
    total_ss(weighted(args.w, args.b), F(nconfig_of(args.w, args.b)))

\* C6 as stated: with zero residual and weights that are not all zero, the
\* weighted rsq is 1.0
C6_AsStated ==
    (Measured /\ args.w.some /\ ~AllZero(args.w.v) /\ ZeroResidual) =>
        ret.record.rsq = F(1)

\* C6 as amended: with zero residual, weights that are not all zero and a
\* total sum of squares (the denominator of rsq) that is not zero, the weighted
\* rsq is 1.0; when the total sum of squares is zero the rsq is NaN
C6_UnlessTotalSSZero ==
    (Measured /\ args.w.some /\ ~AllZero(args.w.v) /\ ZeroResidual) =>
        /\ CallTotalSS # F(0) => ret.record.rsq = F(1)
        /\ CallTotalSS = F(0) => ret.record.rsq = NaN

\* zero residual on two rows with different weights, both > 0, and rsq = 1.0
C6_Witness ==
    /\ Measured
    /\ args.w.some
    /\ Len(args.w.v) = 2
    /\ args.w.v[1] = F(2)
    /\ args.w.v[2] = F(1)
    /\ ZeroResidual
    /\ CallTotalSS # F(0)
    /\ ret.record.rsq = F(1)

---------------------------------------------------------------------------
(* make_Abw on its own *)

\* Datasets for the assembly: one group, configurations of one atom and more
AbwDatasets(n_configs, n_atoms) ==
    UNION {
        {LET wt == [i \in 1..n |-> IF i % 2 = 0 THEN HeldOutWeights ELSE FitWeights]
         IN  Dataset(n, [i \in 1..n |-> "A"], natoms,
                     [i \in 1..n |-> wt[i][1]], [i \in 1..n |-> wt[i][2]],
                     [i \in 1..n |-> wt[i][3]]) :
            natoms \in [1..n -> 1..n_atoms]} :
        n \in 1..n_configs}

InitAbw ==
    /\ configs \in AbwDatasets(MaxConfigs, MaxAtoms)
    /\ bispec_options = NoOptions
    /\ args = NoCall
    /\ ret = NoCall
    /\ entry = configs
    /\ stdout = <<>>
    /\ solver_calls = <<>>

MakeAbw ==
    /\ Callable
    /\ \E offset \in BOOLEAN, return_subsystems \in BOOLEAN, subsystems \in Selectors :
        LET r == make_Abw(configs, offset, return_subsystems, subsystems)
        IN  /\ args' = [op |-> "make_Abw", offset |-> offset,
                        return_subsystems |-> return_subsystems, subsystems |-> subsystems]
            /\ entry' = configs
            /\ ret' = [op |-> "make_Abw", raised |-> r.raised, tuple |-> r.tuple,
                       systems |-> r.systems]
            /\ UNCHANGED <<configs, bispec_options, stdout, solver_calls>>

NextAbw == MakeAbw

SpecAbw == InitAbw /\ [][NextAbw]_vars

\* make_Abw has returned its tuple of systems
Assembled == ret.op = "make_Abw" /\ ~ret.raised /\ args.return_subsystems

\* the kinds selected (1 energy, 2 force, 3 virial), in that order
Kinds == SortedSeq(Selected(args.subsystems))

\* the assembler of a kind, applied to the caller's dataset
Subsystem(kind) ==
    CASE kind = 1 -> makeAbw_b(configs, args.offset)
      [] kind = 2 -> makeAbw_db(configs, args.offset)
      [] OTHER -> makeAbw_vb(configs, args.offset)

\* where the subsystems start in the returned tuple
Shift == IF Len(Kinds) > 1 THEN 1 ELSE 0

\* C7: the subsystems are presented in the order energy, force, virial,
\* filtered by the selector; with more than one selected the combined system
\* comes first and is their row-wise concatenation in that order; with exactly
\* one selected the tuple holds that subsystem alone
C7_PresentationOrder ==
    /\ (ret.op = "make_Abw" /\ ~ret.raised /\ ~args.return_subsystems /\ Len(Kinds) = 1) =>
            ret.systems = <<Subsystem(Kinds[1])>>
    /\ Assembled =>
        /\ Len(ret.systems) = Len(Kinds) + Shift
        /\ \A j \in 1..Len(Kinds) : ret.systems[j + Shift] = Subsystem(Kinds[j])
        /\ Len(Kinds) > 1 =>
              /\ ret.systems[1].A = np_concatenate([j \in 1..Len(Kinds) |-> Subsystem(Kinds[j]).A])
              /\ ret.systems[1].b = np_concatenate([j \in 1..Len(Kinds) |-> Subsystem(Kinds[j]).b])
              /\ ret.systems[1].w = np_concatenate([j \in 1..Len(Kinds) |-> Subsystem(Kinds[j]).w])

\* energy and virial selected, force not: combined, energy, virial
C7_Witness ==
    /\ Assembled
    /\ args.subsystems = <<TRUE, FALSE, TRUE>>
    /\ Len(configs.Group) = 2
    /\ Len(ret.systems) = 3
    /\ ret.systems[2] = makeAbw_b(configs, args.offset)
    /\ ret.systems[3] = makeAbw_vb(configs, args.offset)
    /\ ret.systems[1].b = ret.systems[2].b \o ret.systems[3].b

\* the number of atoms of the dataset's configurations
RECURSIVE SumAtoms(_, _)
SumAtoms(cfs, k) == IF k = 0 THEN 0 ELSE SumAtoms(cfs, k - 1) + cfs.NumAtoms[k].n

\* the row count of a kind of subsystem
ExpectedRows(kind) ==
    CASE kind = 1 -> Len(configs.Group)
      [] kind = 2 -> 3 * SumAtoms(configs, Len(configs.Group))
      [] OTHER -> 6 * Len(configs.Group)

RECURSIVE SumRows(_)
SumRows(k) == IF k = 0 THEN 0 ELSE SumRows(k - 1) + ExpectedRows(Kinds[k])

RowsOf(sys, rows) == Len(sys.A) = rows /\ Len(sys.b) = rows /\ Len(sys.w) = rows

\* C10: the energy subsystem has n_configs rows, the force subsystem the sum
\* of 3.NumAtoms rows, the virial subsystem 6.n_configs rows; b and w have as
\* many entries as A has rows; the combined system has the sum of the row
\* counts of the selected subsystems
C10_RowCounts ==
    Assembled =>
        /\ \A j \in 1..Len(Kinds) : RowsOf(ret.systems[j + Shift], ExpectedRows(Kinds[j]))
        /\ Len(Kinds) > 1 => RowsOf(ret.systems[1], SumRows(Len(Kinds)))

\* configurations of 2 and 3 atoms, all selected: 2, 15 and 12 rows, 29 combined
C10_Witness ==
    /\ Assembled
    /\ args.subsystems = <<TRUE, TRUE, TRUE>>
    /\ configs.NumAtoms = <<F(2), F(3)>>
    /\ Len(ret.systems) = 4
    /\ Len(ret.systems[1].A) = 29
    /\ Len(ret.systems[2].A) = 2
    /\ Len(ret.systems[3].w) = 15
    /\ Len(ret.systems[4].b) = 12

---------------------------------------------------------------------------
(* solve_linear_snap on its own *)

\* rows (A, b, w): clean, one entry infinite or NaN, all entries so
SolveRowValues ==
    {<<F(2), F(1), F(1)>>,
     <<NaN, F(1), F(1)>>, <<PInf, F(1), F(1)>>,
     <<F(2), NaN, F(1)>>, <<F(2), NInf, F(1)>>,
     <<F(2), F(1), NaN>>, <<F(2), F(1), PInf>>,
     <<PInf, NaN, PInf>>}

SolveInputs(n_rows) ==
    UNION {{[op |-> "input", A |-> Arr([i \in 1..n |-> <<<<r[i][1]>>>>]),
             b |-> Arr([i \in 1..n |-> r[i][2]]), w |-> Arr([i \in 1..n |-> r[i][3]])] :
                r \in [1..n -> SolveRowValues]} :
           n \in 1..n_rows}

\* what an estimator may answer: a flat coefficient vector and its own report
EstimatorAnswers == {<<F(0)>>, <<F(3)>>}

InitSolve ==
    /\ configs = EmptyDataset
    /\ bispec_options = NoOptions
    /\ args \in SolveInputs(MaxRows)
    /\ ret = NoCall
    /\ entry = configs
    /\ stdout = <<>>
    /\ solver_calls = <<>>

SolveLinearSnap ==
    /\ args.op = "input"
    /\ ret.op = "none"
    /\ \E offset \in BOOLEAN, x \in EstimatorAnswers :
        LET r == solve_linear_snap(args.A, args.b, args.w, x, <<"model", "fit_result">>, offset)
        IN  /\ stdout' = stdout \o r.printed
            /\ solver_calls' = solver_calls \o r.submitted
            /\ ret' = [op |-> "solve_linear_snap", offset |-> offset, x |-> x,
                       x_typed |-> r.x_typed, solver_info |-> r.solver_info]
    /\ UNCHANGED <<configs, bispec_options, args, entry>>

NextSolve == SolveLinearSnap

SpecSolve == InitSolve /\ [][NextSolve]_vars

Solved == ret.op = "solve_linear_snap"

NotFinite(v) == v.k # "fin"

\* some element of A, b or w is infinite or NaN
Unclean ==
    \/ \E i \in 1..Len(args.A) : \E t \in 1..Len(args.A[i]) : \E c \in 1..Len(args.A[i][t]) :
          NotFinite(args.A[i][t][c])
    \/ \E i \in 1..Len(args.b) : NotFinite(args.b[i])
    \/ \E i \in 1..Len(args.w) : NotFinite(args.w[i])

Diagnostics == {MsgA, MsgB, MsgW}

---------------------------------------------------------------------------
(* get_solver_fn on its own *)

OptionValues ==
    [compute_testerrs : {FALSE},
     normweight : {F(0), Frac(1, 10), F(1), F(10)},
     normratio : {F(0), Frac(1, 2), F(1)},
     SGDPrior : BOOLEAN,
     SGDPriorBeta : {<<>>, <<F(1), F(2)>>}]

InitSolver ==
    /\ configs = EmptyDataset
    /\ bispec_options \in OptionValues
    /\ args = NoCall
    /\ ret = NoCall
    /\ entry = configs
    /\ stdout = <<>>
    /\ solver_calls = <<>>

GetSolverFn ==
    /\ ret.op = "none"
    /\ \E solver \in SolverNames \cup {"QR"} :
        LET r == get_solver_fn(bispec_options, solver)
        IN  /\ args' = [op |-> "get_solver_fn", solver |-> solver]
            /\ ret' = [op |-> "get_solver_fn", raised |-> r.raised, fn |-> r.fn]
    /\ UNCHANGED <<configs, bispec_options, entry, stdout, solver_calls>>

\* the caller fits with the function get_solver_fn gave it
CallFitfn ==
    /\ ret.op = "get_solver_fn"
    /\ ret.raised = "no"
    /\ ret' = [op |-> "fitfn", raised |-> "no", fn |-> ret.fn,
               model |-> fitfn(ret.fn, bispec_options)]
    /\ UNCHANGED <<configs, bispec_options, args, entry, stdout, solver_calls>>

NextSolver == GetSolverFn \/ CallFitfn

SpecSolver == InitSolver /\ [][NextSolver]_vars

\* C9: every estimator get_solver_fn returns is constructed with
\* fit_intercept=False (as stated; the code does not keep to it)
C9_NoInterceptFitted ==
    (ret.op \in {"get_solver_fn", "fitfn"} /\ ret.raised = "no") =>
        KwFlag("fit_intercept", FALSE) \in ret.fn.model_kwargs

---------------------------------------------------------------------------
(* energy_type_offset on its own *)

\* Energy matrices of one or two configurations with the atom types of each:
\* up to n_atoms atoms, none included, of the types in TypeIds
OffsetInputs(n_atoms) ==
    UNION {{[op |-> "input", A_energy |-> Arr([i \in 1..n |-> b_sumOf(i)]), AtomTypes |-> Arr(ty)] :
                ty \in [1..n -> UNION {[1..k -> TypeIds] : k \in 0..n_atoms}]} :
           n \in 1..2}

InitOffset ==
    /\ configs = EmptyDataset
    /\ bispec_options = NoOptions
    /\ args \in OffsetInputs(MaxAtoms)
    /\ ret = NoCall
    /\ entry = configs
    /\ stdout = <<>>
    /\ solver_calls = <<>>

EnergyTypeOffset ==
    /\ args.op = "input"
    /\ ret.op = "none"
    /\ ret' = [op |-> "energy_type_offset",
               A_energy |-> energy_type_offset(args.A_energy, args.AtomTypes)]
    /\ UNCHANGED <<configs, bispec_options, args, entry, stdout, solver_calls>>

NextOffset == EnergyTypeOffset

SpecOffset == InitOffset /\ [][NextOffset]_vars

Encoded == ret.op = "energy_type_offset"

AtomsOfType(types, t) == Cardinality({a \in 1..Len(types) : types[a] = t})

\* C11: for every configuration that has atoms, the column energy_type_offset
\* prepends holds for each type the fraction of the configuration's atoms of
\* that type, the descriptor columns follow it unchanged, and the offset
\* entries of the row sum to 1 across the types
C11_OffsetFractions ==
    Encoded =>
        \A i \in 1..Len(args.A_energy) :
            Len(args.AtomTypes[i]) > 0 =>
                /\ \A t \in TypeIds :
                      ret.A_energy[i][t] =
                          <<Frac(AtomsOfType(args.AtomTypes[i], t), Len(args.AtomTypes[i]))>>
                              \o args.A_energy[i][t]
                /\ np_sum(Arr([t \in TypeIds |-> ret.A_energy[i][t][1]])) = F(1)

\* a configuration of three atoms, two of type 1 and one of type 2, next to a
\* configuration of one atom: the offsets are 2/3, 1/3 and 0, 1
C11_Witness ==
    /\ Encoded
    /\ args.AtomTypes = <<<<1, 1, 2>>, <<2>>>>
    /\ ret.A_energy[1][1][1] = Frac(2, 3)
    /\ ret.A_energy[1][2][1] = Frac(1, 3)
    /\ ret.A_energy[2][1][1] = F(0)
    /\ ret.A_energy[2][2][1] = F(1)

---------------------------------------------------------------------------
(* The table of group_errors *)

\* the groups of the table: the labels of the dataset, and the aggregate when
\* there is more than one label
TableGroups ==
    Groups(entry) \cup (IF Cardinality(Groups(entry)) > 1 THEN {AllLabel} ELSE {})

\* the subsystem kinds of the table: those selected, and Combined when more
\* than one is selected
TableKinds ==
    {sysnames[k + 1] : k \in Selected(args.subsystems)}
        \cup (IF Cardinality(Selected(args.subsystems)) > 1 THEN {"Combined"} ELSE {})

TableWeightings ==
    {"Weighted", "Unweighted"}
        \cup (IF bispec_options.compute_testerrs
              THEN {"CVTrain_Unweight", "CVTest_Unweight"} ELSE {})

\* the place of a record's (Group, Weighting, Subsystem) key in the order of
\* the keys
KeyRank(r) ==
    (Rank(GroupNames, r.Group) * Len(WeightingNames) + Rank(WeightingNames, r.Weighting))
        * Len(sysnames) + Rank(sysnames, r.Subsystem)

\* C12: the returned table holds exactly one record for each group (the
\* aggregate included when there is more than one group), each active
\* subsystem kind (Combined included when more than one is selected) and each
\* weighting (Weighted and Unweighted, and the two cross-validation weightings
\* when compute_testerrs is set), and no other record; no key occurs twice and
\* the rows are in the order of their keys
C12_OneRecordPerCell ==
    Returned =>
        /\ \A g \in TableGroups, k \in TableKinds, w \in TableWeightings :
              Cardinality(Rows(g, k, w)) = 1
        /\ \A i \in 1..Len(ret.table) :
              /\ ret.table[i].Group \in TableGroups
              /\ ret.table[i].Subsystem \in TableKinds
              /\ ret.table[i].Weighting \in TableWeightings
        /\ \A i \in 1..(Len(ret.table) - 1) : KeyRank(ret.table[i]) < KeyRank(ret.table[i + 1])

\* groups A and B, energy and virial selected, compute_testerrs set: three
\* groups, three kinds and four weightings make 36 records, the first of them
\* the aggregate's held-out record of the combined system
C12_Witness ==
    /\ Returned
    /\ Groups(entry) = {"A", "B"}
    /\ args.subsystems = <<TRUE, FALSE, TRUE>>
    /\ bispec_options.compute_testerrs
    /\ Len(ret.table) = 36
    /\ KeyOf(ret.table[1]) = <<"*ALL", "CVTest_Unweight", "Combined">>
    /\ KeyOf(ret.table[36]) = <<"B", "Weighted", "Stress">>

---------------------------------------------------------------------------
(* The names and the systems of a selector: make_Abw, group_errors, get_residuals *)

\* datasets of one or two configurations: one atom each and up to two groups,
\* or one group and up to MaxAtoms atoms each
InitLabels ==
    /\ configs \in GroupDatasets(2) \cup AbwDatasets(2, MaxAtoms)
    /\ bispec_options \in [compute_testerrs : BOOLEAN]
    /\ args = NoCall
    /\ ret = NoCall
    /\ entry = configs
    /\ stdout = <<>>
    /\ solver_calls = <<>>

GetResiduals ==
    /\ Callable
    /\ \E x \in Coefficients, subsystems \in Selectors :
        \E r \in {get_residuals(x, configs, subsystems)} :
            /\ args' = [op |-> "get_residuals", x |-> x, subsystems |-> subsystems]
            /\ entry' = configs
            /\ ret' = [op |-> "get_residuals", raised |-> r.raised, outdict |-> r.outdict]
            /\ UNCHANGED <<configs, bispec_options, stdout, solver_calls>>

NextLabels == MakeAbw \/ GroupErrors \/ GetResiduals

SpecLabels == InitLabels /\ [][NextLabels]_vars

\* Combined first when two or more flags are set, then Energy, Forces, Stress
ExpectedNames(subsystems) ==
    (IF Cardinality(Selected(subsystems)) > 1 THEN <<"Combined">> ELSE <<>>)
        \o (IF subsystems[1] THEN <<"Energy">> ELSE <<>>)
        \o (IF subsystems[2] THEN <<"Forces">> ELSE <<>>)
        \o (IF subsystems[3] THEN <<"Stress">> ELSE <<>>)

\* the system a name stands for
NamedSystem(nm, cf, offset, subsystems) ==
    CASE nm = "Energy" -> makeAbw_b(cf, offset)
      [] nm = "Forces" -> makeAbw_db(cf, offset)
      [] nm = "Stress" -> makeAbw_vb(cf, offset)
      [] OTHER -> LET fns == SortedSeq(Selected(subsystems))
                  IN  Combine(Arr([k \in 1..Len(fns) |-> Assemble(fns[k], cf, offset)]))

\* the dataset of a group of the table
GroupDataset(g) ==
    IF g = AllLabel /\ Cardinality(Groups(entry)) > 1 THEN entry ELSE get_subgroup(entry, g)

\* the names of a selector without Combined
PartNames(subsystems) == SelectSeq(ExpectedNames(subsystems), LAMBDA nm : nm # "Combined")

\* C13: for every selector with a flag set, get_subsys_names gives Combined
\* first only when two or more flags are set, then Energy, Forces, Stress, and
\* make_Abw gives as many systems, each the system of the name at its
\* position; every record of group_errors carries the metrics of the system
\* its Subsystem label names and no selected subsystem is missing from a
\* group; every item of get_residuals is the residual of the system its key
\* names and no selected subsystem is missing
C13_NamesMatchSystems ==
    /\ (ret.op = "make_Abw" /\ args.return_subsystems /\ Selected(args.subsystems) # {}) =>
          /\ ~ret.raised
          /\ get_subsys_names(args.subsystems) = ExpectedNames(args.subsystems)
          /\ Len(ret.systems) = Len(get_subsys_names(args.subsystems))
          /\ \A j \in 1..Len(ret.systems) :
                ret.systems[j] = NamedSystem(get_subsys_names(args.subsystems)[j], entry,
                                             args.offset, args.subsystems)
    /\ Returned =>
          /\ \A i \in 1..Len(ret.table) :
                ret.table[i].Weighting = "Unweighted" =>
                    \E S \in {NamedSystem(ret.table[i].Subsystem, GroupDataset(ret.table[i].Group),
                                          TRUE, args.subsystems)} :
                        ret.table[i].metrics = get_error_metrics(args.x, S.A, S.b, None, FALSE)
          /\ \A g \in Groups(entry) : \A k \in 1..Len(ExpectedNames(args.subsystems)) :
                Rows(g, ExpectedNames(args.subsystems)[k], "Unweighted") # {}
    /\ (ret.op = "get_residuals" /\ Selected(args.subsystems) # {}) =>
          /\ ~ret.raised
          /\ Len(ret.outdict) = Len(PartNames(args.subsystems))
          /\ \A k \in 1..Len(ret.outdict) :
                \E S \in {NamedSystem(PartNames(args.subsystems)[k], entry, TRUE, args.subsystems)} :
                    /\ ret.outdict[k][1] = residual_key(PartNames(args.subsystems)[k])
                    /\ ret.outdict[k][2] =
                          unflatten(get_error_metrics(args.x, S.A, S.b, Some(S.w), TRUE).residual,
                                    entry[ref_field(PartNames(args.subsystems)[k])],
                                    ref_ndim(PartNames(args.subsystems)[k])).value

\* force and virial selected on two configurations of two and three atoms:
\* get_residuals gives the force residuals per configuration and atom and the
\* virial residuals per configuration, in that order, the combined system left out
C13_Witness ==
    /\ ret.op = "get_residuals"
    /\ ~ret.raised
    /\ args.subsystems = <<FALSE, TRUE, TRUE>>
    /\ entry.NumAtoms = <<F(2), F(3)>>
    /\ Len(ret.outdict) = 2
    /\ ret.outdict[1][1] = "residual_Forces"
    /\ Len(ret.outdict[1][2]) = 2
    /\ Len(ret.outdict[1][2][2]) = 3
    /\ ret.outdict[2][1] = "residual_Stress"
    /\ Len(ret.outdict[2][2][1]) = 6

---------------------------------------------------------------------------
====
